---------------------------- MODULE Spec2Model ----------------------------
(***************************************************************************)
(* The drum voice engine of the Anushri firmware (anu/drum_synth.cc):      *)
(* DrumSynth's patch control (Trigger, MorphPatch, SetParameterCc,         *)
(* SetBandwidth, SetBalance), its modulation engine (UpdateModulations)    *)
(* and its renderer (Render, FillWithSilence), as a state machine over the *)
(* class's static fields, the audio ring buffer and the millisecond clock. *)
(*                                                                         *)
(* Render is modelled statement by statement at the granularity of one     *)
(* sample (pc, frame): the properties of interest speak about blocks and   *)
(* samples inside one call.  Every other entry point is one atomic action. *)
(***************************************************************************)
EXTENDS Integers, Naturals, Sequences, FiniteSets, TLC

VARIABLES
  patch_,            \* DrumPatch patch_[3], as the flat byte array the code indexes
  state_,            \* DrumState state_[3]
  sample_rate_,      \* decimation factor
  sample_counter_,   \* samples since the last refresh of the held sample
  sample_,           \* held output sample
  fade_counter_,     \* FillWithSilence's slow counter
  playing_,          \* global playing flag
  last_event_time_,  \* time of the last Trigger
  now,               \* the millisecond clock, milliseconds()
  buffered,          \* audio_buffer: number of samples waiting to be drained
  last_out,          \* audio_buffer: the sample written last
  pc,                \* position of the Render call in progress ("idle" if none)
  frame,             \* Render's local variables
  obs,               \* observations of the call in progress (history only)
  last,              \* the last entry point that ran, with its arguments
  left               \* how many calls of each kind the callers still make

vars == << patch_, state_, sample_rate_, sample_counter_, sample_,
           fade_counter_, playing_, last_event_time_, now, buffered,
           last_out, pc, frame, obs, last, left >>

-----------------------------------------------------------------------------
(* Bounds of the model.                                                    *)

\* Samples per block.  The firmware's kAudioBlockSize is set in
\* anu/audio_buffer.h; the engine's logic does not depend on its value.
kAudioBlockSize == 4
\* Free capacity of the empty audio buffer (room for two blocks and a rest).
BufferCapacity == 9
\* Calls of each kind in one run, and the last reading of the clock.
MaxCtl == 2
MaxTrig == 3
MaxRender == 3
MaxFill == 1
MaxTime == 1
\* FillWithSilence calls in a row when synthesis stalls.
MaxStall == 33100

-----------------------------------------------------------------------------
(* Fixed-width arithmetic.                                                 *)

kNumDrumInstruments == 3
Instruments == 0 .. (kNumDrumInstruments - 1)
Byte == 0 .. 255

U8(x) == x % 256
U16(x) == x % 65536
\* The value of a byte read as int8_t.
S8(x) == ((x + 128) % 256) - 128
\* ~x on uint8_t
Not8(x) == 255 - x
Shr(x, n) == x \div (2 ^ n)
Shl8(x, n) == (x * (2 ^ n)) % 256

\* avrlib/op.h
U8U8Mul(a, b) == a * b
U8U8MulShift8(a, b) == (a * b) \div 256
\* signed a (-128..127) times unsigned b, high byte (arithmetic shift)
S8U8MulShift8(a, b) == (a * b) \div 256
U8Mix(a, b, balance) == (a * (255 - balance) + b * balance) \div 256

-----------------------------------------------------------------------------
(* Resource tables (anu/resources.cc).  Their contents are generated data;  *)
(* the shapes below are the ones the engine relies on.                      *)

\* Decay rate -> envelope increment per block, decreasing.
lut_res_drm_env_increments == [i \in 0 .. 255 |-> 16384 - 48 * i]
\* Pitch -> phase increment per sample, increasing, 257 entries.
lut_res_drm_phase_increments == [i \in 0 .. 256 |-> 41 + 4 * i]
\* Decay curve, 257 entries, maximal at 0.
wav_res_drm_envelope == [i \in 0 .. 256 |-> IF i >= 255 THEN 0 ELSE 255 - i]
\* One period of a wave, 257 signed bytes stored as uint8_t.
wav_res_sine ==
  [ i \in 0 .. 256 |->
      LET t == IF i <= 64 THEN 2 * i
               ELSE IF i <= 192 THEN 256 - 2 * i
               ELSE 2 * i - 512
          c == IF t > 127 THEN 127 ELSE IF t < -127 THEN -127 ELSE t
      IN  U8(c) ]

InterpolateSample(table, phase) ==
  U8Mix(table[Shr(phase, 8)], table[Shr(phase, 8) + 1], phase % 256)

InterpolateIncreasing(table, phase) ==
  LET a == table[Shr(phase, 8)]
      b == table[Shr(phase, 8) + 1]
  IN  U16(a + Shr((b - a) * (phase % 256), 8))

-----------------------------------------------------------------------------
(* Presets and the flat patch layout.                                      *)

preset_bd_1 == << 60, 18, 104, 120, 0 >>
preset_bd_2 == << 56, 60, 120, 150, 0 >>
preset_bd_3 == << 60, 42, 130, 180, 14 >>
preset_bd_4 == << 72, 20, 66, 224, 0 >>
preset_bd_5 == << 42, 52, 106, 160, 60 >>

preset_sd_1 == << 108, 18, 16, 72, 64 >>
preset_sd_2 == << 108, 36, 32, 96, 140 >>
preset_sd_3 == << 108, 36, 50, 90, 180 >>
preset_sd_4 == << 116, 36, 32, 80, 150 >>
preset_sd_5 == << 124, 40, 190, 90, 40 >>

preset_hh_1 == << 132, 0, 0, 80, 255 >>
preset_hh_2 == << 134, 0, 0, 80, 255 >>
preset_hh_3 == << 134, 0, 0, 90, 32 >>
preset_hh_4 == << 134, 0, 0, 90, 255 >>
preset_hh_5 == << 134, 0, 0, 45, 255 >>

\* drum_presets[k], k = 0..14 (TLA+ sequences are 1-based)
drum_presets ==
  << preset_bd_1, preset_bd_2, preset_bd_3, preset_bd_4, preset_bd_5,
     preset_sd_1, preset_sd_2, preset_sd_3, preset_sd_4, preset_sd_5,
     preset_hh_1, preset_hh_2, preset_hh_3, preset_hh_4, preset_hh_5 >>
kNumPresets == Len(drum_presets)

\* DrumPatch: six bytes per instrument, in this order.
kPatchSize == 6
F_pitch == 0
F_pitch_decay == 1
F_pitch_mod == 2
F_amp_decay == 3
F_crunchiness == 4
F_level == 5
PatchBytes == 0 .. (kNumDrumInstruments * kPatchSize - 1)
\* byte offset of field f of patch_[i]
PatchOffset(i, f) == i * kPatchSize + f
PatchField(p, i, f) == p[PatchOffset(i, f)]

\* drums_cc_map[k], k = 0..14
drums_cc_map == << 0, 1, 2, 3, 4, 5,  6, 7, 8, 9, 10, 11,  12, 15, 17 >>


-----------------------------------------------------------------------------
(* State after construction.                                               *)

\* A zeroed DrumState (DrumSynth::Init's memset).
ZeroDrumState ==
  [ phase |-> 0, pitch_env_phase |-> 0, amp_env_phase |-> 0,
    pitch_env_increment |-> 0, amp_env_increment |-> 0,
    phase_increment |-> 0, level |-> 0, amp_level |-> 0,
    amp_level_noise |-> 0 ]

\* Render's locals while no call is in progress.
NoFrame ==
  [ sample |-> 0, sample_counter |-> 0, noise |-> 0,
    phase_0 |-> 0, phase_1 |-> 0, phase_2 |-> 0, phase_2b |-> 0,
    hhnoisesample |-> 0, i |-> 0 ]

\* Nothing observed yet.
NoObs ==
  [ \* of the Render call in progress, or of the last one
    room |-> 0,         \* writable() when the call started
    blocks |-> 0,       \* blocks completed by the call
    updates |-> 0,      \* UpdateModulations calls made by the call
    written |-> 0,      \* samples written by the call
    block_room |-> 0,   \* writable() when the last block started
    overrun |-> FALSE,  \* a sample was written with writable() = 0
    returned |-> FALSE, \* the call has returned
    rest |-> 0,         \* writable() when the call returned
    \* of the last sample generated
    mix |-> 128,        \* the mix accumulator, as the code computes it
    sum |-> 128,        \* the same sum in unbounded integers
    refreshed |-> FALSE,\* the held sample was refreshed by it
    held |-> 0,         \* the held sample before it
    \* of the held sample
    fresh |-> FALSE,    \* it is the last refresh's value, not faded since
    held_mix |-> 128,   \* the mix of the last refresh
    gap |-> 0,          \* samples generated since the last refresh
    steady |-> FALSE,   \* sample_rate_ has not changed since the last refresh
    spacing |-> -1,     \* samples from the refresh before to the last refresh,
                        \* -1 unless sample_rate_ stayed the same since the former
    hhsample |-> 0,     \* hhsample of the last sample of the block in progress
    \* of the block in progress, or of the next one
    since |-> [i \in Instruments |-> -1],
                        \* per instrument: -1, or where its last Trigger ran if no
                        \* block ended since: 0 outside a block, j after the j-th
                        \* sample of the block in progress
    start |-> [i \in Instruments |-> 0] ]
                        \* the phases the block in progress started from

\* What the callers do in one run: the number of patch-control calls, of
\* triggers, of Render calls and of FillWithSilence calls.
Sessions ==
  { [ctl |-> 0, trig |-> MaxTrig, render |-> MaxRender, fill |-> 0, sweep |-> 0],
    [ctl |-> MaxCtl, trig |-> MaxTrig - 1, render |-> 1, fill |-> 0, sweep |-> 0],
    [ctl |-> 1, trig |-> 1, render |-> MaxRender - 1, fill |-> MaxFill, sweep |-> 0] }

\* The engine, the buffer and the clock after construction.
InitEngine ==
  /\ patch_ = [k \in PatchBytes |-> 0]
  /\ state_ = [i \in Instruments |-> ZeroDrumState]
  /\ sample_rate_ = 0
  /\ sample_counter_ = 0
  /\ sample_ = 0
  /\ fade_counter_ = 0
  /\ playing_ = FALSE
  /\ last_event_time_ = 0
  /\ now = 0
  /\ buffered = 0
  /\ last_out = 0
  /\ pc = "idle"
  /\ frame = NoFrame
  /\ obs = NoObs
  /\ last = [op |-> "Init", a |-> 0, b |-> 0, found |-> 0]

Init ==
  /\ InitEngine
  /\ left \in Sessions

\* audio_buffer.writable()
writable == BufferCapacity - buffered

-----------------------------------------------------------------------------
(* Patch control.                                                          *)

\* Trigger without the reset of the amplitude envelope's phase.
TriggerState_KeepsEnvelope(s, p, instrument, level) ==
  [ s EXCEPT
      !.phase = 0,
      !.pitch_env_phase = 0,
      !.pitch_env_increment =
          lut_res_drm_env_increments[PatchField(p, instrument, F_pitch_decay)],
      !.amp_env_increment =
          lut_res_drm_env_increments[PatchField(p, instrument, F_amp_decay)],
      !.level = U8U8MulShift8(level, PatchField(p, instrument, F_level)) ]

\* Trigger without the reset of the oscillator's phase.
TriggerState_KeepsPhase(s, p, instrument, level) ==
  [ s EXCEPT
      !.pitch_env_phase = 0,
      !.amp_env_phase = 0,
      !.pitch_env_increment =
          lut_res_drm_env_increments[PatchField(p, instrument, F_pitch_decay)],
      !.amp_env_increment =
          lut_res_drm_env_increments[PatchField(p, instrument, F_amp_decay)],
      !.level = U8U8MulShift8(level, PatchField(p, instrument, F_level)) ]

\* DrumSynth::Trigger: the new DrumState of the triggered instrument.
TriggerState(s, p, instrument, level) ==
  [ s EXCEPT
      !.phase = 0,
      !.pitch_env_phase = 0,
      !.amp_env_phase = 0,
      !.pitch_env_increment =
          lut_res_drm_env_increments[PatchField(p, instrument, F_pitch_decay)],
      !.amp_env_increment =
          lut_res_drm_env_increments[PatchField(p, instrument, F_amp_decay)],
      !.level = U8U8MulShift8(level, PatchField(p, instrument, F_level)) ]

\* time is the reading of milliseconds(), a clock that never runs backwards.
Trigger(instrument, level, time) ==
  /\ time >= now
  /\ now' = time
  /\ last_event_time_' = time
  /\ state_' = [state_ EXCEPT
                  ![instrument] = TriggerState(@, patch_, instrument, level)]
  /\ playing_' = TRUE
  /\ last' = [op |-> "Trigger", a |-> instrument, b |-> level,
              found |-> state_[instrument].amp_env_phase]
  /\ UNCHANGED << patch_, sample_rate_, sample_counter_, sample_,
                  fade_counter_, buffered, last_out, pc, frame >>

\* The preset index without the instrument's category.
MorphOffset_NoCategory(instrument, value) == Shr(value, 6)

\* The two presets MorphPatch blends, as indices into drum_presets.
MorphOffset(instrument, value) == U8(instrument * 5 + Shr(value, 6))
MorphBalance(value) == Shl8(value, 2)

\* DrumSynth::MorphPatch: the new patch table.
MorphPatchTable(p, instrument, value) ==
  LET offset == MorphOffset(instrument, value)
      balance == MorphBalance(value)
      a == drum_presets[offset + 1]
      b == drum_presets[offset + 2]
      address == PatchOffset(instrument, F_pitch)
  IN  [ k \in PatchBytes |->
          IF k >= address /\ k < address + 5
            THEN U8Mix(a[k - address + 1], b[k - address + 1], balance)
            ELSE p[k] ]

MorphPatch(instrument, value) ==
  /\ patch_' = MorphPatchTable(patch_, instrument, value)
  /\ last' = [op |-> "MorphPatch", a |-> instrument, b |-> value, found |-> 0]
  /\ UNCHANGED << state_, sample_rate_, sample_counter_, sample_,
                  fade_counter_, playing_, last_event_time_, now, buffered,
                  last_out, pc, frame >>

\* The guard with its upper limit off by one.
CcIgnored_Above31(cc) == cc < 16 \/ cc > 31

\* The guard of SetParameterCc.
CcIgnored(cc) == cc < 16 \/ cc > 30

\* pgm_read_byte(drums_cc_map + cc - 16): the bytes it can return.  A read
\* outside the table returns whatever byte lies there.
CcAddresses(cc) ==
  IF cc - 16 \in 0 .. (Len(drums_cc_map) - 1)
    THEN {drums_cc_map[cc - 16 + 1]}
    ELSE PatchBytes

\* The controller value stored without the shift.
CcByte_Unshifted(value) == value

\* The byte SetParameterCc stores.
CcByte(value) == Shl8(value, 1)

\* DrumSynth::SetParameterCc: an ignored controller returns before the map
\* is read.
SetParameterCc(cc, value) ==
  /\ \/ /\ CcIgnored(cc)
        /\ patch_' = patch_
     \/ /\ ~ CcIgnored(cc)
        /\ \E address \in CcAddresses(cc) :
             patch_' = [patch_ EXCEPT ![address] = CcByte(value)]
  /\ last' = [op |-> "SetParameterCc", a |-> cc, b |-> value, found |-> 0]
  /\ UNCHANGED << state_, sample_rate_, sample_counter_, sample_,
                  fade_counter_, playing_, last_event_time_, now, buffered,
                  last_out, pc, frame >>

\* DrumSynth::SetBandwidth: the new decimation factor.
BandwidthRate(bandwidth) == Shr(Not8(bandwidth), 3)

SetBandwidth(bandwidth) ==
  /\ sample_rate_' = BandwidthRate(bandwidth)
  /\ obs' = IF sample_rate_' = sample_rate_ THEN obs
            ELSE [obs EXCEPT !.steady = FALSE, !.spacing = -1]
  /\ last' = [op |-> "SetBandwidth", a |-> bandwidth, b |-> 0, found |-> 0]
  /\ UNCHANGED << patch_, state_, sample_counter_, sample_, fade_counter_,
                  playing_, last_event_time_, now, buffered, last_out, pc,
                  frame >>

\* SetBalance without the inversion of the bass drum's level.
SetBalanceTable_NoInversion(p, mix) ==
  LET bd == IF mix < 128 THEN 255 ELSE Shl8(mix - 128, 1)
      sd == IF mix < 128 THEN Shl8(mix, 1) ELSE 255
  IN  [ p EXCEPT ![PatchOffset(0, F_level)] = bd,
                 ![PatchOffset(1, F_level)] = sd,
                 ![PatchOffset(2, F_level)] = Shr(sd, 1) ]

\* SetBalance giving the hi-hat the snare's whole level.
SetBalanceTable_HiHatFull(p, mix) ==
  LET bd == IF mix < 128 THEN 255 ELSE Not8(Shl8(mix - 128, 1))
      sd == IF mix < 128 THEN Shl8(mix, 1) ELSE 255
  IN  [ p EXCEPT ![PatchOffset(0, F_level)] = bd,
                 ![PatchOffset(1, F_level)] = sd,
                 ![PatchOffset(2, F_level)] = sd ]

\* DrumSynth::SetBalance: the new patch table.
SetBalanceTable(p, mix) ==
  LET bd == IF mix < 128 THEN 255 ELSE Not8(Shl8(mix - 128, 1))
      sd == IF mix < 128 THEN Shl8(mix, 1) ELSE 255
  IN  [ p EXCEPT ![PatchOffset(0, F_level)] = bd,
                 ![PatchOffset(1, F_level)] = sd,
                 ![PatchOffset(2, F_level)] = Shr(sd, 1) ]

SetBalance(mix) ==
  /\ patch_' = SetBalanceTable(patch_, mix)
  /\ last' = [op |-> "SetBalance", a |-> mix, b |-> 0, found |-> 0]
  /\ UNCHANGED << state_, sample_rate_, sample_counter_, sample_,
                  fade_counter_, playing_, last_event_time_, now, buffered,
                  last_out, pc, frame >>


-----------------------------------------------------------------------------
(* Modulation engine.                                                      *)

\* The overflow test with <= for <.
EnvOverflow_OrEqual(phase, increment) == phase <= increment

\* The test that an envelope addition overflowed: phase is the accumulator
\* after the addition.
EnvOverflow(phase, increment) == phase < increment

\* One iteration of UpdateModulations' loop: the new DrumState of instrument i.
\* random is the byte Random::GetByte() returns.
\* UpdateModulations, line 317: the hi-hat's second increment is the value
\* the phase-increment table returned.
HiHatSecondIncrement(phase_increment) == phase_increment

\* The product taken in more than 16 bits, as where int is wider than 16 bits.
HiHatPrimaryIncrement_WideInt(phase_increment) ==
  U16((phase_increment * 3) \div 2)

\* UpdateModulations, line 318: (phase_increment * 3) / 2 on a uint16_t. int
\* has 16 bits on the AVR, so the operand is promoted to unsigned int and the
\* product is taken modulo 2^16 before the division.
HiHatPrimaryIncrement(phase_increment) == Shr(U16(phase_increment * 3), 1)

ModulateInstrument(s, p, i, random) ==
  LET amp_sum == U16(s.amp_env_phase + s.amp_env_increment)
      amp_done == EnvOverflow(amp_sum, s.amp_env_increment)
      amp_env_phase == IF amp_done THEN 65535 ELSE amp_sum
      amp_env_increment == IF amp_done THEN 0 ELSE s.amp_env_increment
      amp_level ==
        U8U8MulShift8(s.level,
                      InterpolateSample(wav_res_drm_envelope, amp_env_phase))
      pitch_a == U16(PatchField(p, i, F_pitch) * 256)
      pitch_b == IF i = 0
                   THEN U16(pitch_a
                            + U8U8Mul(random, PatchField(p, i, F_crunchiness)))
                   ELSE pitch_a
      pitch_sum == U16(s.pitch_env_phase + s.pitch_env_increment)
      pitch_done == EnvOverflow(pitch_sum, s.pitch_env_increment)
      pitch_env_phase == IF i = 2 THEN s.pitch_env_phase
                         ELSE IF pitch_done THEN 65535 ELSE pitch_sum
      pitch_env_increment == IF i = 2 THEN s.pitch_env_increment
                             ELSE IF pitch_done THEN 0
                             ELSE s.pitch_env_increment
      pitch == IF i = 2
                 THEN pitch_b
                 ELSE U16(pitch_b
                          + U8U8Mul(PatchField(p, i, F_pitch_mod),
                                    InterpolateSample(wav_res_drm_envelope,
                                                      pitch_env_phase)))
      phase_increment ==
        InterpolateIncreasing(lut_res_drm_phase_increments, pitch)
  IN  [ s EXCEPT
          !.amp_env_phase = amp_env_phase,
          !.amp_env_increment = amp_env_increment,
          !.amp_level = amp_level,
          !.pitch_env_phase = pitch_env_phase,
          !.pitch_env_increment =
              IF i = 2 THEN HiHatSecondIncrement(phase_increment)
                       ELSE pitch_env_increment,
          !.phase_increment =
              IF i = 2 THEN HiHatPrimaryIncrement(phase_increment)
                       ELSE phase_increment ]

\* Whether instrument s's amplitude envelope sets playing_ in this call.
MarksPlaying(s) ==
  ~ EnvOverflow(U16(s.amp_env_phase + s.amp_env_increment),
                s.amp_env_increment)

\* The enveloped level written back to the level Trigger stored.
UpdateModulationsState_DecaysLevel(st, p, random) ==
  [i \in Instruments |->
     LET m == ModulateInstrument(st[i], p, i, random)
     IN  [m EXCEPT !.level = m.amp_level]]

\* The loop stopped after the bass drum.
UpdateModulationsState_BassDrumOnly(st, p, random) ==
  [st EXCEPT ![0] = ModulateInstrument(st[0], p, 0, random)]

\* DrumSynth::UpdateModulations: the new state_.
UpdateModulationsState(st, p, random) ==
  LET m == [i \in Instruments |-> ModulateInstrument(st[i], p, i, random)]
  IN  [ m EXCEPT
          ![1] = [ m[1] EXCEPT
                     !.amp_level_noise =
                         U8U8MulShift8(m[1].amp_level,
                                       PatchField(p, 1, F_crunchiness)),
                     !.amp_level =
                         U8U8MulShift8(m[1].amp_level,
                                       Not8(PatchField(p, 1, F_crunchiness))) ],
          ![2] = [ m[2] EXCEPT
                     !.amp_level_noise = PatchField(p, 2, F_crunchiness) ] ]

\* DrumSynth::UpdateModulations: the new playing_.
UpdateModulationsPlaying(st) == \E i \in Instruments : MarksPlaying(st[i])


-----------------------------------------------------------------------------
(* Renderer.                                                               *)

S16(x) == ((x + 32768) % 65536) - 32768
Bit(x, mask) == (x \div mask) % 2 = 1

\* The bass drum's interpolated waveform sample.
BassSample(phase_0) ==
  LET bd == S8(wav_res_sine[Shr(phase_0, 8)])
      bd_2 == S8(wav_res_sine[Shr(phase_0, 8) + 1])
  IN  S8(bd + S8U8MulShift8(S8(bd_2 - bd), U8(phase_0)))

\* The bit pattern with bit2 || bit7 for the exclusive or of res1.
HiHatNegative_OrForXor(phase_2, phase_2b) ==
  LET hibits_phase_2 == Shr(phase_2, 8)
      bit2 == Bit(hibits_phase_2, 4)
      bit3 == Bit(hibits_phase_2, 8)
      bit7 == Bit(hibits_phase_2, 128)
      res1 == bit3 \/ (bit2 \/ bit7)
      hibits_phase_2b == Shr(phase_2b, 8)
      bit3e == Bit(hibits_phase_2b, 8)
      bit5e == Bit(hibits_phase_2b, 32)
      res2 == (bit3e \/ bit5e) /\ ~(bit3e /\ bit5e)
  IN  res2 \/ res1

\* res2 || res1 of the hi-hat's bit pattern.
HiHatNegative(phase_2, phase_2b) ==
  LET hibits_phase_2 == Shr(phase_2, 8)
      bit2 == Bit(hibits_phase_2, 4)
      bit3 == Bit(hibits_phase_2, 8)
      bit7 == Bit(hibits_phase_2, 128)
      res1 == bit3 \/ ((bit2 \/ bit7) /\ ~(bit2 /\ bit7))
      hibits_phase_2b == Shr(phase_2b, 8)
      bit3e == Bit(hibits_phase_2b, 8)
      bit5e == Bit(hibits_phase_2b, 32)
      res2 == (bit3e \/ bit5e) /\ ~(bit3e /\ bit5e)
  IN  res2 \/ res1

HiHatNoiseSample(amp_level_noise) == S8(120 - S8U8MulShift8(80, amp_level_noise))

HiHatSample(phase_2, phase_2b, noise, hhnoisesample) ==
  IF HiHatNegative(phase_2, phase_2b)
    THEN IF Bit(noise, 1) THEN S8(- hhnoisesample) ELSE -120
    ELSE IF Bit(noise, 1) THEN hhnoisesample ELSE 120

\* The four contributions added to the bias of 128, for the frame f after its
\* phases and noise advanced.
MixTerms(f, st) ==
  << S8U8MulShift8(BassSample(f.phase_0), st[0].amp_level),
     S8U8MulShift8(S8(wav_res_sine[Shr(f.phase_1, 8)]), st[1].amp_level),
     S8U8MulShift8(S8(f.noise), st[1].amp_level_noise),
     S8U8MulShift8(HiHatSample(f.phase_2, f.phase_2b, f.noise, f.hhnoisesample),
                   st[2].amp_level) >>

\* int16_t mix after the four additions.
Mix(f, st) ==
  LET t == MixTerms(f, st)
  IN  S16(S16(S16(S16(128 + t[1]) + t[2]) + t[3]) + t[4])

\* The same sum without a width.
MixSum(f, st) ==
  LET t == MixTerms(f, st)
  IN  128 + t[1] + t[2] + t[3] + t[4]

\* The decimation test with >= for >.
Refresh_OrEqual(sample_counter, sample_rate) == sample_counter >= sample_rate

\* The decimation test.
Refresh(sample_counter, sample_rate) == sample_counter > sample_rate

\* The mix truncated to a byte instead of saturated.
Clamp_Truncates(mix) == mix % 256

\* The saturation of the mix to a byte.
Clamp(mix) == IF mix > 255 THEN 255 ELSE IF mix < 0 THEN 0 ELSE mix

\* The loop test against any room at all, and against room for two blocks.
BlockFits_AnyRoom(room) == room > 0
BlockFits_TwoBlocks(room) == room >= 2 * kAudioBlockSize

\* The loop test of Render.
BlockFits(room) == room >= kAudioBlockSize

\* Render, lines 198-199: the call starts and loads its locals.
RenderEnter ==
  /\ pc = "idle"
  /\ pc' = "loop"
  /\ frame' = [NoFrame EXCEPT !.sample = sample_,
                              !.sample_counter = sample_counter_]
  /\ obs' = [obs EXCEPT !.room = writable, !.blocks = 0, !.updates = 0,
                        !.written = 0, !.overrun = FALSE,
                        !.returned = FALSE]
  /\ last' = [op |-> "Render", a |-> 0, b |-> 0, found |-> 0]
  /\ UNCHANGED << patch_, state_, sample_rate_, sample_counter_, sample_,
                  fade_counter_, playing_, last_event_time_, now, buffered,
                  last_out >>

\* Render, lines 200-207: the loop test passes; UpdateModulations runs and the
\* block's locals are loaded.  random and seed come from the noise source.
RenderBlock(random, seed) ==
  /\ pc = "loop"
  /\ BlockFits(writable)
  /\ state_' = UpdateModulationsState(state_, patch_, random)
  /\ playing_' = UpdateModulationsPlaying(state_)
  /\ frame' = [frame EXCEPT
                 !.noise = seed,
                 !.phase_0 = state_'[0].phase,
                 !.phase_1 = state_'[1].phase,
                 !.phase_2 = state_'[2].phase,
                 !.phase_2b = state_'[2].pitch_env_phase,
                 !.hhnoisesample = HiHatNoiseSample(state_'[2].amp_level_noise),
                 !.i = 0]
  /\ pc' = "sample"
  /\ obs' = [obs EXCEPT !.updates = @ + 1, !.block_room = writable,
                        !.start = [i \in Instruments |-> state_[i].phase]]
  /\ UNCHANGED << patch_, sample_rate_, sample_counter_, sample_,
                  fade_counter_, last_event_time_, now, buffered, last_out,
                  last >>

\* Render, lines 208-268: one iteration of the sample loop.
RenderSample ==
  /\ pc = "sample"
  /\ frame.i < kAudioBlockSize
  /\ LET f == [frame EXCEPT
                 !.sample_counter = U8(@ + 1),
                 !.noise = U8(@ * 73 + 1),
                 !.phase_0 = U16(@ + state_[0].phase_increment),
                 !.phase_1 = U16(@ + state_[1].phase_increment),
                 !.phase_2 = U16(@ + state_[2].phase_increment),
                 !.phase_2b = U16(@ + state_[2].pitch_env_increment)]
         mix == Mix(f, state_)
         refresh == Refresh(f.sample_counter, sample_rate_)
         sample == IF refresh THEN U8(Clamp(mix)) ELSE f.sample
     IN  /\ frame' = [f EXCEPT
                        !.sample = sample,
                        !.sample_counter = IF refresh THEN 0 ELSE @,
                        !.i = @ + 1]
         \* audio_buffer.Overwrite(sample)
         /\ last_out' = sample
         /\ buffered' = IF writable > 0 THEN buffered + 1 ELSE buffered
         /\ obs' = [obs EXCEPT
                      !.written = @ + 1,
                      !.overrun = @ \/ writable = 0,
                      !.mix = mix,
                      !.sum = MixSum(f, state_),
                      !.hhsample = HiHatSample(f.phase_2, f.phase_2b, f.noise,
                                               f.hhnoisesample),
                      !.refreshed = refresh,
                      !.held = frame.sample,
                      !.fresh = @ \/ refresh,
                      !.held_mix = IF refresh THEN mix ELSE @,
                      !.gap = IF refresh THEN 0 ELSE @ + 1,
                      !.steady = @ \/ refresh,
                      !.spacing = IF refresh
                                    THEN IF obs.steady THEN obs.gap + 1 ELSE -1
                                    ELSE @]
  /\ UNCHANGED << patch_, state_, sample_rate_, sample_counter_, sample_,
                  fade_counter_, playing_, last_event_time_, now, pc, last >>

\* Render, lines 269-273: the block's phases are stored and the block's
\* locals go out of scope.
RenderBlockEnd ==
  /\ pc = "sample"
  /\ frame.i = kAudioBlockSize
  /\ state_' = [state_ EXCEPT
                  ![0] = [@ EXCEPT !.phase = frame.phase_0],
                  ![1] = [@ EXCEPT !.phase = frame.phase_1],
                  ![2] = [@ EXCEPT !.phase = frame.phase_2,
                                   !.pitch_env_phase = frame.phase_2b]]
  /\ frame' = [NoFrame EXCEPT !.sample = frame.sample,
                              !.sample_counter = frame.sample_counter]
  /\ pc' = "loop"
  /\ obs' = [obs EXCEPT !.blocks = @ + 1, !.hhsample = 0,
                        !.since = NoObs.since, !.start = NoObs.start]
  /\ UNCHANGED << patch_, sample_rate_, sample_counter_, sample_,
                  fade_counter_, playing_, last_event_time_, now, buffered,
                  last_out, last >>

\* Render, lines 200 and 274-276: the loop test fails and the call returns.
RenderReturn ==
  /\ pc = "loop"
  /\ ~ BlockFits(writable)
  /\ sample_' = frame.sample
  /\ sample_counter_' = frame.sample_counter
  /\ fade_counter_' = 255
  /\ pc' = "idle"
  /\ frame' = NoFrame
  /\ obs' = [obs EXCEPT !.returned = TRUE, !.rest = writable]
  /\ UNCHANGED << patch_, state_, sample_rate_, playing_, last_event_time_,
                  now, buffered, last_out, last >>

\* The fade applied whenever a sample is held, whatever the counter.
FadeDue_EveryCall(sample, fade_counter) == sample # 0

\* FillWithSilence lowers the held sample in this call.
FadeDue(sample, fade_counter) == sample # 0 /\ fade_counter = 0

\* DrumSynth::FillWithSilence.  last counts the calls made in a row (a) and
\* keeps the sample held when the first of them was made (b).
FillWithSilence ==
  LET fade == FadeDue(sample_, fade_counter_)
      again == last.op = "FillWithSilence"
      sample == IF fade THEN sample_ - 1 ELSE sample_
  IN  /\ sample_' = sample
      /\ fade_counter_' = IF sample_ = 0 THEN fade_counter_
                          ELSE IF fade_counter_ # 0 THEN fade_counter_ - 1
                          ELSE 255
      \* while (audio_buffer.writable()) audio_buffer.Overwrite(sample_)
      /\ buffered' = BufferCapacity
      /\ last_out' = IF writable > 0 THEN sample ELSE last_out
      /\ obs' = [obs EXCEPT !.fresh = @ /\ ~ fade]
      /\ last' = [op |-> "FillWithSilence",
                  a |-> IF again THEN last.a + 1 ELSE 1,
                  b |-> IF again THEN last.b ELSE sample_,
                  found |-> 0]
      /\ UNCHANGED << patch_, state_, sample_rate_, sample_counter_, playing_,
                      last_event_time_, now, pc, frame >>

-----------------------------------------------------------------------------
(* Environment: the audio sink.                                            *)

\* The sink takes n samples out of the buffer.
Drain(n) ==
  /\ buffered >= n
  /\ buffered' = buffered - n
  /\ UNCHANGED << patch_, state_, sample_rate_, sample_counter_, sample_,
                  fade_counter_, playing_, last_event_time_, now, last_out,
                  pc, frame, obs, last >>

-----------------------------------------------------------------------------
(* The engine's callers.  Control events and the renderer run on one       *)
(* context, and the sink takes samples between calls: an entry point runs  *)
(* only while no Render call is in progress.                               *)

\* Arguments the callers pass.
TriggerLevels == {128, 255}
MorphValues == {0, 255}
CcNumbers == {15, 26, 27, 30}
CcValues == {127}
BalanceValues == {0, 255}
BandwidthValues == {239}
Times == 0 .. MaxTime
\* Bytes the noise source returns: << Random::GetByte(), Random::state_msb() >>.
NoiseBytes == { << 0, 142 >>, << 255, 3 >> }
\* Samples the sink takes at a time.
DrainSizes == {kAudioBlockSize}

CallTrigger ==
  /\ pc = "idle" /\ left.trig > 0
  /\ \E i \in Instruments, v \in TriggerLevels, t \in Times :
       /\ Trigger(i, v, t)
       /\ obs' = [obs EXCEPT !.since[i] = 0]
  /\ left' = [left EXCEPT !.trig = @ - 1]

CallMorphPatch ==
  /\ pc = "idle" /\ left.ctl > 0
  /\ \E i \in Instruments, v \in MorphValues : MorphPatch(i, v)
  /\ left' = [left EXCEPT !.ctl = @ - 1]
  /\ UNCHANGED obs

CallSetParameterCc ==
  /\ pc = "idle" /\ left.ctl > 0
  /\ \E cc \in CcNumbers, v \in CcValues : SetParameterCc(cc, v)
  /\ left' = [left EXCEPT !.ctl = @ - 1]
  /\ UNCHANGED obs

CallSetBandwidth ==
  /\ pc = "idle" /\ left.ctl > 0
  /\ \E v \in BandwidthValues : SetBandwidth(v)
  /\ left' = [left EXCEPT !.ctl = @ - 1]

CallSetBalance ==
  /\ pc = "idle" /\ left.ctl > 0
  /\ \E v \in BalanceValues : SetBalance(v)
  /\ left' = [left EXCEPT !.ctl = @ - 1]
  /\ UNCHANGED obs

CallRender ==
  /\ left.render > 0
  /\ RenderEnter
  /\ left' = [left EXCEPT !.render = @ - 1]

RenderStartsBlock ==
  /\ \E n \in NoiseBytes : RenderBlock(n[1], n[2])
  /\ UNCHANGED left

RenderMakesSample ==
  /\ RenderSample
  /\ UNCHANGED left

RenderEndsBlock ==
  /\ RenderBlockEnd
  /\ UNCHANGED left

RenderReturns ==
  /\ RenderReturn
  /\ UNCHANGED left

CallFillWithSilence ==
  /\ pc = "idle" /\ left.fill > 0
  /\ FillWithSilence
  /\ left' = [left EXCEPT !.fill = @ - 1]

SinkDrains ==
  /\ pc = "idle"
  /\ \E n \in DrainSizes : Drain(n)
  /\ UNCHANGED left

Next ==
  \/ CallTrigger
  \/ CallMorphPatch
  \/ CallSetParameterCc
  \/ CallSetBandwidth
  \/ CallSetBalance
  \/ CallRender
  \/ RenderStartsBlock
  \/ RenderMakesSample
  \/ RenderEndsBlock
  \/ RenderReturns
  \/ CallFillWithSilence
  \/ SinkDrains

Spec == Init /\ [][Next]_vars


-----------------------------------------------------------------------------
(* The amplitude envelope alone: repeated UpdateModulations calls after a  *)
(* trigger that loaded a given increment from the decay table.             *)

\* Increments the decay table may hold.
EnvIncrements ==
  { 16, 17, 255, 256, 257, 4095, 4096, 4097, 21845, 21846,
    32767, 32768, 32769, 65534, 65535 }
\* Calls followed after the envelope finished.
MaxAfter == 3

\* Calls an envelope of the given increment takes to finish: ceil(65536 / increment).
EnvCalls(increment) == (65536 + increment - 1) \div increment

\* The bass drum was triggered at level 255 and its decay table entries are
\* `increment`; nothing was rendered yet.
InitEnv ==
  \E increment \in EnvIncrements :
    /\ patch_ = [k \in PatchBytes |-> IF k = PatchOffset(0, F_level) THEN 255 ELSE 0]
    /\ state_ = [i \in Instruments |->
                   IF i = 0
                     THEN [ZeroDrumState EXCEPT
                             !.pitch_env_increment = increment,
                             !.amp_env_increment = increment,
                             !.level = U8U8MulShift8(255, 255)]
                     ELSE ZeroDrumState]
    /\ sample_rate_ = 0
    /\ sample_counter_ = 0
    /\ sample_ = 0
    /\ fade_counter_ = 0
    /\ playing_ = TRUE
    /\ last_event_time_ = 0
    /\ now = 0
    /\ buffered = 0
    /\ last_out = 0
    /\ pc = "idle"
    /\ frame = NoFrame
    /\ obs = NoObs
    /\ last = [op |-> "Trigger", a |-> 0, b |-> 255, found |-> increment]
    /\ left = [ctl |-> 0, trig |-> 0, render |-> 0, fill |-> 0, sweep |-> 0]

\* DrumSynth::UpdateModulations, called once more.
UpdateModulations(random) ==
  /\ state_' = UpdateModulationsState(state_, patch_, random)
  /\ playing_' = UpdateModulationsPlaying(state_)
  /\ obs' = [obs EXCEPT !.updates = @ + 1]
  /\ UNCHANGED << patch_, sample_rate_, sample_counter_, sample_,
                  fade_counter_, last_event_time_, now, buffered, last_out,
                  pc, frame, last, left >>

EnvelopeAdvances ==
  /\ obs.updates < EnvCalls(last.found) + MaxAfter
  /\ \E n \in NoiseBytes : UpdateModulations(n[1])

NextEnv == EnvelopeAdvances

SpecEnv == InitEnv /\ [][NextEnv]_vars


-----------------------------------------------------------------------------
(* The control surface over its whole argument range: after at most one    *)
(* patch-control call, one call with any controller number and value.      *)

NoCalls == [ctl |-> 0, trig |-> 0, render |-> 0, fill |-> 0, sweep |-> 0]

InitCtl ==
  /\ InitEngine
  /\ left = [NoCalls EXCEPT !.ctl = 1, !.sweep = 1]

AnySetParameterCc ==
  /\ pc = "idle" /\ left.sweep > 0
  /\ \E cc \in Byte, v \in Byte : SetParameterCc(cc, v)
  /\ left' = NoCalls
  /\ UNCHANGED obs

AnySetBalance ==
  /\ pc = "idle" /\ left.sweep > 0
  /\ \E mix \in Byte : SetBalance(mix)
  /\ left' = NoCalls
  /\ UNCHANGED obs

AnyMorphPatch ==
  /\ pc = "idle" /\ left.sweep > 0
  /\ \E i \in Instruments, value \in Byte : MorphPatch(i, value)
  /\ left' = NoCalls
  /\ UNCHANGED obs

NextCtl ==
  \/ CallMorphPatch
  \/ CallSetParameterCc
  \/ CallSetBandwidth
  \/ CallSetBalance
  \/ AnySetParameterCc
  \/ AnySetBalance
  \/ AnyMorphPatch

SpecCtl == InitCtl /\ [][NextCtl]_vars


-----------------------------------------------------------------------------
(* Synthesis stalls: one Render call, then only FillWithSilence calls while *)
(* the sink keeps taking samples.                                           *)

InitStall ==
  /\ InitEngine
  /\ left = [NoCalls EXCEPT !.render = 1, !.fill = MaxStall]

StallFillWithSilence ==
  /\ pc = "idle" /\ left.render = 0 /\ left.fill > 0
  /\ FillWithSilence
  /\ left' = [left EXCEPT !.fill = @ - 1]

NextStall ==
  \/ CallRender
  \/ RenderStartsBlock
  \/ RenderMakesSample
  \/ RenderEndsBlock
  \/ RenderReturns
  \/ StallFillWithSilence
  \/ SinkDrains

SpecStall == InitStall /\ [][NextStall]_vars

-----------------------------------------------------------------------------
(* Callers that do not serialize: a Trigger may also run from an interrupt  *)
(* between two samples of the block Render is making.                       *)

InitPreempt ==
  /\ InitEngine
  /\ left = [NoCalls EXCEPT !.ctl = 1, !.trig = MaxTrig - 1,
                            !.render = MaxRender - 1]

PreemptingTrigger ==
  /\ pc = "sample" /\ left.trig > 0
  /\ frame.i \in 1 .. (kAudioBlockSize - 1)
  /\ \E i \in Instruments, v \in TriggerLevels, t \in Times :
       /\ Trigger(i, v, t)
       /\ obs' = [obs EXCEPT !.since[i] = frame.i]
  /\ left' = [left EXCEPT !.trig = @ - 1]

NextPreempt ==
  \/ CallTrigger
  \/ PreemptingTrigger
  \/ CallMorphPatch
  \/ CallSetParameterCc
  \/ CallSetBandwidth
  \/ CallSetBalance
  \/ CallRender
  \/ RenderStartsBlock
  \/ RenderMakesSample
  \/ RenderEndsBlock
  \/ RenderReturns
  \/ SinkDrains

SpecPreempt == InitPreempt /\ [][NextPreempt]_vars

-----------------------------------------------------------------------------
(* The bass drum's first block: the callers set the bass drum's patch to    *)
(* pitch 60, pitch_decay 18, pitch_mod 104, amp_decay 120, crunchiness 0,   *)
(* level 255 through the controllers and the balance, then trigger the bass *)
(* drum at 255; Render runs whenever the buffer has room.                   *)

\* << cc, value >> of the controller messages: the bytes stored are 2 * value.
FirstBlockSetup == << << 16, 30 >>, << 17, 9 >>, << 18, 52 >>, << 19, 60 >> >>
FirstBlockPatch == << 60, 18, 104, 120, 0, 255 >>

InitFirstBlock ==
  /\ InitEngine
  /\ left = [NoCalls EXCEPT !.ctl = Len(FirstBlockSetup) + 1,
                            !.trig = MaxTrig - 1, !.render = MaxRender - 1]

SetsUpFirstBlock ==
  /\ pc = "idle" /\ left.ctl > 0
  /\ LET k == Len(FirstBlockSetup) + 2 - left.ctl
     IN  IF k <= Len(FirstBlockSetup)
           THEN SetParameterCc(FirstBlockSetup[k][1], FirstBlockSetup[k][2])
           ELSE SetBalance(0)
  /\ left' = [left EXCEPT !.ctl = @ - 1]
  /\ UNCHANGED obs

TriggersBassDrum ==
  /\ pc = "idle" /\ left.ctl = 0 /\ left.trig > 0
  /\ \E t \in Times :
       /\ Trigger(0, 255, t)
       /\ obs' = [obs EXCEPT !.since[0] = 0]
  /\ left' = [left EXCEPT !.trig = @ - 1]

NextFirstBlock ==
  \/ SetsUpFirstBlock
  \/ TriggersBassDrum
  \/ CallRender
  \/ RenderStartsBlock
  \/ RenderMakesSample
  \/ RenderEndsBlock
  \/ RenderReturns
  \/ SinkDrains

SpecFirstBlock == InitFirstBlock /\ [][NextFirstBlock]_vars

------------------------------------------------------------------------------
(* The hi-hat branch of UpdateModulations on its own: the hi-hat's pitch is   *)
(* set by a controller or a morph, the phase increment is looked up (lines    *)
(* 312-314) and the branch of lines 315-319 derives the two increments. The   *)
(* contents of the phase-increment table are not in the sources, so the       *)
(* lookup is taken both from the table of this module and from a set of       *)
(* 16-bit values around the limits of the arithmetic.                         *)

HatIncrements ==
  (0 .. 3) \cup (560 .. 580) \cup (21840 .. 21850)
    \cup {32767, 32768, 43690, 43691, 65534, 65535}

InitHat ==
  /\ InitEngine
  /\ left = [NoCalls EXCEPT !.ctl = 1, !.render = 1]

HatSetsPitch ==
  /\ pc = "idle" /\ left.ctl > 0
  /\ \E v \in 0 .. 127 : SetParameterCc(28, v)
  /\ left' = [left EXCEPT !.ctl = @ - 1]
  /\ UNCHANGED obs

HatMorphs ==
  /\ pc = "idle" /\ left.ctl > 0
  /\ \E value \in Byte : MorphPatch(2, value)
  /\ left' = [left EXCEPT !.ctl = @ - 1]
  /\ UNCHANGED obs

\* Lines 312-314 for the hi-hat, the table returning `increment'.
HatLookup(increment) ==
  /\ pc = "idle" /\ left.render > 0
  /\ state_' = [state_ EXCEPT ![2].phase_increment = increment]
  /\ pc' = "hihat"
  /\ left' = [left EXCEPT !.render = @ - 1]
  /\ UNCHANGED << patch_, sample_rate_, sample_counter_, sample_,
                  fade_counter_, playing_, last_event_time_, now, buffered,
                  last_out, frame, obs, last >>

HatLooksUpPitch ==
  HatLookup(InterpolateIncreasing(lut_res_drm_phase_increments,
                                  U16(PatchField(patch_, 2, F_pitch) * 256)))

HatLooksUpAny == \E increment \in HatIncrements : HatLookup(increment)

\* Lines 315-319.
HatScales ==
  /\ pc = "hihat"
  /\ state_' = [state_ EXCEPT
                  ![2].pitch_env_increment =
                      HiHatSecondIncrement(state_[2].phase_increment),
                  ![2].phase_increment =
                      HiHatPrimaryIncrement(state_[2].phase_increment)]
  /\ pc' = "idle"
  /\ obs' = [obs EXCEPT !.updates = @ + 1]
  /\ UNCHANGED << patch_, sample_rate_, sample_counter_, sample_,
                  fade_counter_, playing_, last_event_time_, now, buffered,
                  last_out, frame, last, left >>

NextHat ==
  \/ HatSetsPitch
  \/ HatMorphs
  \/ HatLooksUpPitch
  \/ HatLooksUpAny
  \/ HatScales

SpecHat == InitHat /\ [][NextHat]_vars

------------------------------------------------------------------------------
(* The hi-hat's sample over the phases: Render runs on an engine whose two    *)
(* hi-hat phases are anywhere in their cycle (the increments are odd, so a    *)
(* phase goes through all of 0 .. 65535), after a morph of the hi-hat's       *)
(* patch, the only way to its crunchiness.                                    *)

\* Primary phases: every combination of bits 2, 3 and 7 of the high byte,
\* with the other bits of the word all clear or all set.
HiHatPrimaryPhases ==
  { 256 * (4 * b2 + 8 * b3 + 128 * b7) + rest :
      b2 \in 0 .. 1, b3 \in 0 .. 1, b7 \in 0 .. 1, rest \in {0, 256 * 115 + 255} }

\* Secondary phases: every combination of bits 3 and 5 of the high byte,
\* with the other bits of the word all clear or all set.
HiHatSecondaryPhases ==
  { 256 * (8 * b3e + 32 * b5e) + rest :
      b3e \in 0 .. 1, b5e \in 0 .. 1, rest \in {0, 256 * 215 + 255} }

InitHiHatSample ==
  \E phase \in HiHatPrimaryPhases, pitch_env_phase \in HiHatSecondaryPhases :
    /\ patch_ = [k \in PatchBytes |-> 0]
    /\ state_ = [i \in Instruments |->
                   IF i = 2
                     THEN [ZeroDrumState EXCEPT
                             !.phase = phase,
                             !.pitch_env_phase = pitch_env_phase]
                     ELSE ZeroDrumState]
    /\ sample_rate_ = 0
    /\ sample_counter_ = 0
    /\ sample_ = 0
    /\ fade_counter_ = 0
    /\ playing_ = FALSE
    /\ last_event_time_ = 0
    /\ now = 0
    /\ buffered = 0
    /\ last_out = 0
    /\ pc = "idle"
    /\ frame = NoFrame
    /\ obs = NoObs
    /\ last = [op |-> "Init", a |-> 0, b |-> 0, found |-> 0]
    /\ left = [NoCalls EXCEPT !.ctl = 1, !.render = 1]

NextHiHatSample ==
  \/ HatMorphs
  \/ CallRender
  \/ RenderStartsBlock
  \/ RenderMakesSample
  \/ RenderEndsBlock
  \/ RenderReturns

SpecHiHatSample == InitHiHatSample /\ [][NextHiHatSample]_vars

-----------------------------------------------------------------------------
(* Properties.                                                             *)

\* A Render call is making a block and has written a sample of it.
Wrote == pc = "sample" /\ frame.i > 0
\* A step that is a call of an entry point by the callers.
IsCall == left' # left
\* An amplitude envelope that has finished.
Finished(s) == s.amp_env_phase = 65535 /\ s.amp_env_increment = 0
\* The mix saturated to a byte.
Saturated(x) == IF x > 255 THEN 255 ELSE IF x < 0 THEN 0 ELSE x

\* C1: Render never overfills the output buffer.  A block is started only
\* with room for a whole block and writes exactly kAudioBlockSize samples, so
\* a call writes a multiple of the block size and never more than was
\* writable when it started; with no room for a block it writes nothing; and
\* it returns with less than a block of room.
C1_RenderNeverOverfills ==
  /\ ~ obs.overrun
  /\ obs.written <= obs.room
  /\ pc = "sample" =>
       /\ obs.block_room >= kAudioBlockSize
       /\ obs.written = obs.blocks * kAudioBlockSize + frame.i
       /\ frame.i <= kAudioBlockSize
  /\ pc # "sample" => obs.written = obs.blocks * kAudioBlockSize
  /\ obs.returned =>
       /\ obs.rest < kAudioBlockSize
       /\ obs.room < kAudioBlockSize => obs.written = 0

\* A call that wrote two blocks has returned.
C1_Witness ==
  /\ obs.returned
  /\ obs.written = 2 * kAudioBlockSize
  /\ obs.rest = obs.room - obs.written

\* C2: from phase 0 with a fixed increment > 0, the amplitude envelope
\* finishes (phase 0xffff, increment 0) at call number ceil(65536 / increment)
\* and not before; until then the phase grows by the increment at every call
\* without wrapping, and afterwards every call leaves phase and increment as
\* they are.
C2_EnvelopeFinish ==
  LET increment == last.found
      n == obs.updates
      s == state_[0]
  IN  /\ n < EnvCalls(increment) =>
           /\ s.amp_env_phase = n * increment
           /\ s.amp_env_phase < 65536
           /\ s.amp_env_increment = increment
           /\ ~ Finished(s)
      /\ n >= EnvCalls(increment) => Finished(s)

\* An envelope whose increment divides 65536 finished at its sixteenth call
\* and was advanced again.
C2_Witness ==
  /\ last.found = 4096
  /\ obs.updates = EnvCalls(4096) + 1
  /\ EnvCalls(4096) = 16
  /\ Finished(state_[0])

\* C3: after every UpdateModulations call playing_ is true exactly when the
\* amplitude envelope of at least one instrument has not finished.
C3_PlayingIffRunning ==
  pc = "sample" => (playing_ <=> \E i \in Instruments : ~ Finished(state_[i]))

\* C4: Trigger(i, velocity) zeroes the three phases of instrument i, loads its
\* two envelope increments from the decay table, sets its level to
\* (velocity * patch level) >> 8, sets playing_ and records the time; the
\* other instruments, the patch table, sample_rate_, the held sample and the
\* counters are unchanged.
C4_TriggerFrame ==
  [][ (IsCall /\ last'.op = "Trigger") =>
        LET i == last'.a
            velocity == last'.b
        IN  /\ state_'[i].phase = 0
            /\ state_'[i].pitch_env_phase = 0
            /\ state_'[i].amp_env_phase = 0
            /\ state_'[i].pitch_env_increment =
                 lut_res_drm_env_increments[patch_[i * 6 + 1]]
            /\ state_'[i].amp_env_increment =
                 lut_res_drm_env_increments[patch_[i * 6 + 3]]
            /\ state_'[i].level = (velocity * patch_[i * 6 + 5]) \div 256
            /\ state_'[i].phase_increment = state_[i].phase_increment
            /\ state_'[i].amp_level = state_[i].amp_level
            /\ state_'[i].amp_level_noise = state_[i].amp_level_noise
            /\ \A j \in Instruments \ {i} : state_'[j] = state_[j]
            /\ playing_'
            /\ last_event_time_' = now'
            /\ UNCHANGED << patch_, sample_rate_, sample_, sample_counter_,
                            fade_counter_, buffered, last_out >>
    ]_vars

\* A trigger restarted an envelope that had finished.
C4_Witness ==
  /\ last.op = "Trigger"
  /\ last.found = 65535
  /\ state_[last.a].amp_env_phase = 0
  /\ state_[last.a].amp_env_increment > 0
  /\ \E j \in Instruments \ {last.a} : Finished(state_[j])

\* C5 as stated: a Render call with room for at least one block runs
\* UpdateModulations once and makes exactly one block, whatever the room.
C5_ExactlyOneBlock ==
  (obs.returned /\ obs.room >= kAudioBlockSize) =>
     (obs.blocks = 1 /\ obs.updates = 1)

\* C5, amended: a Render call runs UpdateModulations once before each block,
\* and with nothing taken out of the buffer during the call it makes as many
\* whole blocks as fitted when it started.
C5_OneUpdatePerBlock ==
  /\ pc = "sample" => obs.updates = obs.blocks + 1
  /\ pc # "sample" => obs.updates = obs.blocks
  /\ obs.returned => obs.blocks = obs.room \div kAudioBlockSize

\* A call that found room for two blocks made both.
C5_Witness ==
  /\ obs.returned
  /\ obs.room >= 2 * kAudioBlockSize
  /\ obs.blocks = 2
  /\ obs.updates = 2

C7_Decimation ==
  /\ obs.spacing # -1 => obs.spacing = sample_rate_ + 1
  /\ obs.steady => obs.gap <= sample_rate_
  /\ (Wrote /\ ~ obs.refreshed) => last_out = obs.held
  /\ (Wrote /\ sample_rate_ = 0) => obs.refreshed

\* With N = 2, a refresh in the first block of a call came three samples
\* after the refresh before it, which an earlier call made.
C7_Witness ==
  /\ Wrote
  /\ obs.refreshed
  /\ sample_rate_ = 2
  /\ obs.spacing = 3
  /\ obs.blocks = 0
  /\ frame.i < 3

\* C10: MorphPatch(i, 0) leaves the five morphable fields of patch i equal,
\* byte for byte, to the first preset of the instrument's category.
C10_MorphZeroIsFirstPreset ==
  [][ (IsCall /\ last'.op = "MorphPatch" /\ last'.b = 0) =>
        LET i == last'.a
            first == IF i = 0 THEN preset_bd_1
                     ELSE IF i = 1 THEN preset_sd_1 ELSE preset_hh_1
        IN  \A f \in 0 .. 4 : patch_'[i * 6 + f] = first[f + 1]
    ]_vars

\* The engine apart from the patch table, the buffer and the clock.
EngineRest ==
  << state_, sample_rate_, sample_counter_, sample_, fade_counter_, playing_,
     last_event_time_, now, buffered, last_out, pc, frame >>

\* C8: SetParameterCc(cc, value) with cc outside 16..30 changes nothing, for
\* every cc in 0..15 and 31..255 and every value: the 18 patch bytes and the
\* rest of the engine are as before.
C8_CcOutOfRangeIgnored ==
  [][ (IsCall /\ last'.op = "SetParameterCc"
         /\ (last'.a \in 0 .. 15 \/ last'.a \in 31 .. 255)) =>
        (patch_' = patch_ /\ UNCHANGED EngineRest)
    ]_vars

\* After a morph filled the bass drum's patch, controller 31 with a non-zero
\* value was sent.
C8_Witness ==
  /\ last.op = "SetParameterCc"
  /\ last.a = 31
  /\ last.b = 127
  /\ patch_[0] # 0

\* C9: SetParameterCc(cc, value) with cc in 16..30 and value in 0..127 writes
\* 2 * value to one patch byte, at offset cc - 16 for cc 16..27 and at 12, 15,
\* 17 for cc 28, 29, 30 -- always inside the table, the bass drum's pitch for
\* cc 16 -- and leaves the other 17 bytes and all DrumState unchanged.
C9_CcWritesOneByte ==
  [][ (IsCall /\ last'.op = "SetParameterCc"
         /\ last'.a \in 16 .. 30 /\ last'.b \in 0 .. 127) =>
        LET cc == last'.a
            value == last'.b
            offset == IF cc <= 27 THEN cc - 16
                      ELSE IF cc = 28 THEN 12
                      ELSE IF cc = 29 THEN 15 ELSE 17
        IN  /\ offset \in 0 .. 17
            /\ cc = 16 => offset = 0
            /\ patch_'[offset] = 2 * value
            /\ \A k \in (0 .. 17) \ {offset} : patch_'[k] = patch_[k]
            /\ DOMAIN patch_' = 0 .. 17
            /\ UNCHANGED EngineRest
    ]_vars

\* Controller 30 with value 100 stored 200 in the hi-hat's level.
C9_Witness ==
  /\ last.op = "SetParameterCc"
  /\ last.a = 30
  /\ last.b = 100
  /\ patch_[17] = 200

\* The five presets of an instrument's category, and |x - y|.
Category(i) ==
  IF i = 0 THEN << preset_bd_1, preset_bd_2, preset_bd_3, preset_bd_4, preset_bd_5 >>
  ELSE IF i = 1
    THEN << preset_sd_1, preset_sd_2, preset_sd_3, preset_sd_4, preset_sd_5 >>
    ELSE << preset_hh_1, preset_hh_2, preset_hh_3, preset_hh_4, preset_hh_5 >>
Distance(x, y) == IF x >= y THEN x - y ELSE y - x

\* C11: MorphPatch(i, 255) leaves each of the five morphable fields of patch
\* i within one LSB of the fifth preset of the instrument's category.
C11_MorphFullIsLastPreset ==
  [][ (IsCall /\ last'.op = "MorphPatch" /\ last'.b = 255) =>
        LET i == last'.a
        IN  \A f \in 0 .. 4 :
              Distance(patch_'[i * 6 + f], Category(i)[5][f + 1]) <= 1
    ]_vars

\* C12: SetBalance(mix), for every mix in 0..255, sets the bass level to 255
\* and the snare level to 2 * mix if mix < 128, else the snare level to 255
\* and the bass level to 255 - 2 * (mix - 128); the hi-hat level is half the
\* snare level, rounded down.  SetBalance(0) gives (255, 0, 0) and
\* SetBalance(255) gives (1, 255, 127); the bass level never grows and the
\* snare level never shrinks with mix; nothing else changes.
C12_SetBalanceLevels ==
  [][ (IsCall /\ last'.op = "SetBalance") =>
        LET mix == last'.a
            bass == IF mix < 128 THEN 255 ELSE 255 - 2 * (mix - 128)
            snare == IF mix < 128 THEN 2 * mix ELSE 255
            below == SetBalanceTable(patch_, mix - 1)
        IN  /\ patch_'[5] = bass
            /\ patch_'[11] = snare
            /\ patch_'[17] = snare \div 2
            /\ mix = 0 => << patch_'[5], patch_'[11], patch_'[17] >> = << 255, 0, 0 >>
            /\ mix = 255 => << patch_'[5], patch_'[11], patch_'[17] >> = << 1, 255, 127 >>
            /\ mix > 0 => (below[5] >= patch_'[5] /\ below[11] <= patch_'[11])
            /\ \A k \in (0 .. 17) \ {5, 11, 17} : patch_'[k] = patch_[k]
            /\ UNCHANGED EngineRest
    ]_vars

\* After a morph filled a patch, SetBalance(200) set the levels (111, 255, 127).
C12_Witness ==
  /\ last.op = "SetBalance"
  /\ last.a = 200
  /\ << patch_[5], patch_[11], patch_[17] >> = << 111, 255, 127 >>
  /\ \E k \in (0 .. 17) \ {5, 11, 17} : patch_[k] # 0

\* C19: MorphPatch(i, value), for every i and every value in 0..255, blends
\* preset number value >> 6 of category i with the next one of the same
\* category (never the first of the next category, never past the table) and
\* writes only the fields pitch..crunchiness of patch i: its level and the
\* other two patches stay as they are.
C19_MorphIsLocal ==
  [][ (IsCall /\ last'.op = "MorphPatch") =>
        LET i == last'.a
            value == last'.b
            n == value \div 64
            w == (4 * value) % 256
            a == Category(i)[n + 1]
            b == Category(i)[n + 2]
        IN  /\ MorphOffset(i, value) = 5 * i + n
            /\ MorphOffset(i, value) + 1 <= 5 * i + 4
            /\ MorphOffset(i, value) + 1 < kNumPresets
            /\ \A f \in 0 .. 4 :
                 patch_'[i * 6 + f] = (a[f + 1] * (255 - w) + b[f + 1] * w) \div 256
            /\ \A k \in (0 .. 17) \ ((i * 6) .. (i * 6 + 4)) : patch_'[k] = patch_[k]
    ]_vars

\* After SetBalance set the levels, MorphPatch(2, 255) blended the last two
\* hi-hat presets and left the levels alone.
C19_Witness ==
  /\ last.op = "MorphPatch"
  /\ last.a = 2
  /\ last.b = 255
  /\ patch_[12] = 133
  /\ << patch_[5], patch_[11], patch_[17] >> = << 1, 255, 127 >>

\* C13: a FillWithSilence call lowers the held sample by at most one and
\* never below 0, and only when it finds the fade counter at 0, which it then
\* reloads with 255; so after a Render the n-th call in a row leaves the
\* sample n / 256 (rounded down) below the one Render held, or 0 once that is
\* used up: first lowered by the 256th call, then every 256 calls, finally 0
\* for good.  Every call leaves the buffer full, what it wrote being the
\* held sample.
C13_FadeOut ==
  [][ (IsCall /\ last'.op = "FillWithSilence") =>
        LET n == last'.a
            held == last'.b
            faded == held - (n \div 256)
        IN  /\ sample_' \in {sample_, sample_ - 1}
            /\ sample_' >= 0
            /\ sample_' # sample_ <=> (fade_counter_ = 0 /\ sample_ > 0)
            /\ sample_' # sample_ => fade_counter_' = 255
            /\ sample_' = IF faded > 0 THEN faded ELSE 0
            /\ buffered' = BufferCapacity
            /\ buffered < BufferCapacity => last_out' = sample_'
    ]_vars

\* The 256th call in a row after a Render that held 128 lowered the sample to
\* 127 and reloaded the counter.
C13_Witness ==
  /\ last.op = "FillWithSilence"
  /\ last.a = 256
  /\ last.b = 128
  /\ sample_ = 127
  /\ fade_counter_ = 255
  /\ buffered = BufferCapacity

\* Render's local copy of the phase of instrument i.
LocalPhase(i) == IF i = 0 THEN frame.phase_0 ELSE frame.phase_1

\* C16: nothing protects a block in progress from a Trigger.  When
\* Trigger(i, v) ran after the j-th sample of the block, the write-back at
\* the block's end replaces the phase Trigger had reset by the local one,
\* accumulated from where the block started: the phase after the block is
\* not the (kAudioBlockSize - j) increments accumulated from 0.  When the
\* Trigger ran outside a block, the phase of the bass drum and of the snare
\* after the first block is kAudioBlockSize * phase_increment mod 65536.
C16_TriggerAndRender ==
  [][ (pc = "sample" /\ pc' = "loop") =>
        \A i \in {0, 1} :
          LET j == obs.since[i]
              increment == state_[i].phase_increment
          IN  /\ j = 0 =>
                   state_'[i].phase = (kAudioBlockSize * increment) % 65536
              /\ j >= 1 =>
                   /\ state_[i].phase = 0
                   /\ state_'[i].phase = LocalPhase(i)
                   /\ state_'[i].phase =
                        (obs.start[i] + kAudioBlockSize * increment) % 65536
                   /\ (obs.start[i] + j * increment) % 65536 # 0 =>
                        state_'[i].phase #
                          ((kAudioBlockSize - j) * increment) % 65536
    ]_vars

\* A block that did not start from phase 0 is complete, a Trigger of the bass
\* drum ran inside it, and the local phase about to be written back is not
\* the one accumulated since that Trigger.
C16_Witness ==
  /\ pc = "sample"
  /\ frame.i = kAudioBlockSize
  /\ obs.since[0] >= 1
  /\ obs.start[0] # 0
  /\ state_[0].phase = 0
  /\ frame.phase_0 #
       ((kAudioBlockSize - obs.since[0]) * state_[0].phase_increment) % 65536

\* C14: after Trigger(0, 255) on the bass drum with the patch 60, 18, 104,
\* 120, 0, 255, the amp_level the first block uses is the decay curve's value
\* at phase 0 scaled by the level 255 -- whether the curve's value is read
\* from the table or interpolated, and the level taken as 255 or as Trigger
\* stored it.
C14_FirstBlockFullLevel ==
  [][ (pc = "loop" /\ pc' = "sample" /\ obs.since[0] = 0) =>
        /\ \A f \in 0 .. 5 : patch_[f] = FirstBlockPatch[f + 1]
        /\ \E level \in {255, (255 * 255) \div 256} :
           \E curve \in {wav_res_drm_envelope[0],
                         InterpolateSample(wav_res_drm_envelope, 0)} :
             state_'[0].amp_level = (level * curve) \div 256
    ]_vars

\* An amplitude envelope phase after one more step of its increment.
Stepped(phase, increment) ==
  IF (phase + increment) % 65536 < increment THEN 65535
  ELSE (phase + increment) % 65536

\* C15: inside Render every block is preceded by one whole UpdateModulations
\* call, for all three instruments, with no sample between the call and the
\* block; what the block's samples read is what that call computed, and the
\* hi-hat's second increment (pitch_env_increment) is the phase increment the
\* call computed from the hi-hat's pitch, not the decay-table value Trigger
\* left in that field.
C15_UpdateBeforeBlock ==
  [][ /\ (pc = "loop" /\ pc' = "sample") =>
           /\ obs'.updates = obs.updates + 1
           /\ obs'.written = obs.written
           /\ frame'.i = 0
           /\ \A i \in Instruments :
                state_'[i].amp_env_phase =
                  Stepped(state_[i].amp_env_phase, state_[i].amp_env_increment)
           /\ state_'[2].pitch_env_increment =
                lut_res_drm_phase_increments[patch_[12]]
      /\ (pc = "sample" /\ pc' = "sample") =>
           /\ obs'.updates = obs.updates
           /\ obs'.written = obs.written + 1
           /\ \A i \in Instruments :
                /\ state_'[i].phase_increment = state_[i].phase_increment
                /\ state_'[i].amp_level = state_[i].amp_level
                /\ state_'[i].amp_level_noise = state_[i].amp_level_noise
           /\ state_'[2].pitch_env_increment =
                lut_res_drm_phase_increments[patch_[12]]
           /\ frame'.phase_2b =
                (frame.phase_2b + lut_res_drm_phase_increments[patch_[12]]) % 65536
      /\ (pc' = "sample" /\ frame'.i > 0) =>
           obs'.written = obs'.blocks * kAudioBlockSize + frame'.i
      /\ (pc = "sample" /\ pc' = "loop") =>
           /\ frame.i = kAudioBlockSize
           /\ obs'.updates = obs'.blocks
    ]_vars

\* The hi-hat was triggered, which left the decay-table value in its
\* pitch_env_increment, and a sample of the next block read the recomputed
\* increment.
C15_Witness ==
  /\ Wrote
  /\ obs.since[2] = 0
  /\ state_[2].amp_env_increment = lut_res_drm_env_increments[patch_[15]]
  /\ state_[2].pitch_env_increment = lut_res_drm_phase_increments[patch_[12]]
  /\ state_[2].pitch_env_increment # lut_res_drm_env_increments[patch_[13]]

\* The hi-hat's patch level is half of the snare's.
HiHatHalfOfSnare(p) ==
  p[PatchOffset(2, F_level)] = p[PatchOffset(1, F_level)] \div 2

\* A SetParameterCc call whose controller addresses the snare's level (27)
\* or the hi-hat's level (30).
WritesALevel ==
  IsCall /\ last'.op = "SetParameterCc" /\ last'.a \in {27, 30}

\* C17 as stated: in every reachable state the hi-hat's patch level is half
\* of the snare's patch level.
C17_HiHatAlwaysHalf == HiHatHalfOfSnare(patch_)

\* C17: the hi-hat's patch level is half of the snare's in the initial patch
\* and after every SetBalance call, and every call keeps the relation except
\* SetParameterCc with controller 27 or 30, which writes twice its value to
\* the snare's or the hi-hat's level and leaves the other level alone.
C17_HalfUnlessLevelCc ==
  [][ /\ (IsCall /\ last'.op = "SetBalance") => HiHatHalfOfSnare(patch_')
      /\ (HiHatHalfOfSnare(patch_) /\ ~ WritesALevel) =>
           HiHatHalfOfSnare(patch_')
      /\ (IsCall /\ last'.op = "SetParameterCc" /\ last'.a = 27) =>
           /\ patch_'[PatchOffset(1, F_level)] = (2 * last'.b) % 256
           /\ patch_'[PatchOffset(2, F_level)] = patch_[PatchOffset(2, F_level)]
      /\ (IsCall /\ last'.op = "SetParameterCc" /\ last'.a = 30) =>
           /\ patch_'[PatchOffset(2, F_level)] = (2 * last'.b) % 256
           /\ patch_'[PatchOffset(1, F_level)] = patch_[PatchOffset(1, F_level)]
    ]_vars

\* SetBalance(255) gave the snare 255 and the hi-hat 127, and a block is
\* being made with these levels.
C17_Witness ==
  /\ Wrote
  /\ patch_[PatchOffset(1, F_level)] = 255
  /\ patch_[PatchOffset(2, F_level)] = 127

\* The step is a call of Trigger for instrument i.
IsTrigger(i) == IsCall /\ last'.op = "Trigger" /\ last'.a = i

\* C18: Trigger(i, v) stores (v * patch level of i) >> 8 as the level of
\* instrument i, every step that is not a Trigger of i leaves that level as
\* it is, whatever happens to the patch, and MorphPatch, SetParameterCc,
\* SetBalance and SetBandwidth change no field of any DrumState.
C18_LevelCapturedAtTrigger ==
  [][ /\ \A i \in Instruments :
           /\ IsTrigger(i) =>
                state_'[i].level =
                  (last'.b * patch_[PatchOffset(i, F_level)]) \div 256
           /\ ~ IsTrigger(i) => state_'[i].level = state_[i].level
      /\ ( IsCall /\ last'.op \in {"MorphPatch", "SetParameterCc",
                                   "SetBalance", "SetBandwidth"} ) =>
           state_' = state_
    ]_vars

\* The bass drum was triggered at velocity 255 with patch level 255, the
\* balance then took its patch level down to 1, and a block is being made
\* with the level 254 of the trigger.
C18_Witness ==
  /\ Wrote
  /\ state_[0].level = 254
  /\ patch_[PatchOffset(0, F_level)] = 1
  /\ state_[0].amp_level > 1

\* C20 as stated: after the hi-hat branch three times the second increment
\* is twice the primary one.
C20_ExactlyTwoThirds ==
  (pc = "idle" /\ obs.updates > 0) =>
    3 * state_[2].pitch_env_increment = 2 * state_[2].phase_increment

\* C20: with P the value the phase-increment table returned, the hi-hat's
\* second increment is P and the primary one is ((3 * P) mod 2^16) div 2. For
\* P <= 21845 the product does not wrap and 3 * second - 2 * primary is 0 for
\* an even P and 1 for an odd P; for P > 21845 the product wraps and the
\* primary increment is below the second one.
C20_TwoThirdsTruncated ==
  [][ (pc = "hihat" /\ pc' = "idle") =>
        LET P == state_[2].phase_increment
            second == state_'[2].pitch_env_increment
            primary == state_'[2].phase_increment
        IN  /\ second = P
            /\ primary = ((3 * P) % 65536) \div 2
            /\ P <= 21845 => 3 * second - 2 * primary = P % 2
            /\ P > 21845 => primary < second
    ]_vars

\* The table returned 569, the increment the presets' comment gives for the
\* hi-hat, and the branch left 569 and 853.
C20_Witness ==
  /\ pc = "idle" /\ obs.updates > 0
  /\ state_[2].pitch_env_increment = 569
  /\ state_[2].phase_increment = 853

\* Bit n (0 .. 7) of the high byte of a 16-bit word, as 0 or 1.
HighBit(word, n) == (word \div (2 ^ (8 + n))) % 2

\* C21: the hi-hat sample of every sample Render makes is negative exactly
\* when bit 3 of the primary phase's high byte is set, or its bits 2 and 7
\* differ, or bits 3 and 5 of the secondary phase's high byte differ, and
\* positive otherwise; its magnitude is 120 with an even noise byte and
\* 120 - ((80 * crunchiness) >> 8), within 41 .. 120, with an odd one; nothing
\* else of the phases enters.
C21_HiHatBitPattern ==
  Wrote =>
    LET negative ==
          \/ HighBit(frame.phase_2, 3) = 1
          \/ HighBit(frame.phase_2, 2) # HighBit(frame.phase_2, 7)
          \/ HighBit(frame.phase_2b, 3) # HighBit(frame.phase_2b, 5)
        crunchiness == PatchField(patch_, 2, F_crunchiness)
        magnitude == IF frame.noise % 2 = 0 THEN 120
                     ELSE 120 - ((80 * crunchiness) \div 256)
    IN  /\ magnitude \in 41 .. 120
        /\ obs.hhsample = IF negative THEN - magnitude ELSE magnitude

\* A positive hi-hat sample with bits 2 and 7 of the primary phase's high
\* byte both set, other bits of both phases set, an odd noise byte and a
\* crunchiness that lowers the magnitude.
C21_Witness ==
  /\ Wrote
  /\ HighBit(frame.phase_2, 2) = 1 /\ HighBit(frame.phase_2, 7) = 1
  /\ HighBit(frame.phase_2, 3) = 0
  /\ HighBit(frame.phase_2, 5) = 1 /\ frame.phase_2 % 256 # 0
  /\ HighBit(frame.phase_2b, 3) = 1 /\ HighBit(frame.phase_2b, 5) = 1
  /\ HighBit(frame.phase_2b, 7) = 1
  /\ frame.noise % 2 = 1
  /\ obs.hhsample \in 41 .. 119

=============================================================================
